---- MODULE Spec2Model ----
(***************************************************************************)
(* github-awtrix: two poll programs (open pull requests, commit chart)     *)
(* that query the GitHub search API and push pixel payloads to an Ulanzi   *)
(* display (src/index.ts), and the year-progress variant of the pull       *)
(* request program (src/unnamed/part_000).                                 *)
(***************************************************************************)
EXTENDS Integers, Sequences, FiniteSets, TLC

VARIABLES
    commitChartDays,  \* config.commitChartDays
    exit,             \* exit state of `program` (Effect.all of the two programs)
    prPc,             \* position of prProgram
    prTotal,          \* total_count returned by fetchOpenPRs in this cycle
    prPayload,        \* body of the POST to /api/custom?name=github in this cycle
    prErr,            \* error raised inside pollOnce, not yet caught
    prLog,            \* what Console.error printed in this cycle
    cPc,              \* position of commitProgram
    today,            \* `today` of fetchCommitActivity (ms)
    upstream,         \* number of commits the search API holds for the query
    items,            \* Effect.iterate state: items (committer dates, ms)
    page,             \* Effect.iterate state: page
    requests,         \* page numbers requested from the API in this cycle
    pageLog,          \* newItems.length of every page logged in this cycle
    commitData,       \* result of fetchCommitActivity
    chartPayload,     \* body of the POST to /api/custom?name=commits in this cycle
    cErr,             \* error raised inside pollCommitsOnce, not yet caught
    cLog,             \* what Console.error printed in this cycle
    yPc,              \* position of the year-progress program (part_000)
    yTotal,           \* total_count returned by fetchMergedPRs
    yNow,             \* clock read by pushToUlanzi: seconds into the year, year length
    yPayload,         \* body of the POST of the year-progress program
    yErr,             \* error raised inside its pollOnce, not yet caught
    yLog              \* what its Console.error printed in this cycle

prVars == <<prPc, prTotal, prPayload, prErr, prLog>>
cVars == <<cPc, today, upstream, items, page, requests, pageLog, commitData,
           chartPayload, cErr, cLog>>
yVars == <<yPc, yTotal, yNow, yPayload, yErr, yLog>>
vars == <<commitChartDays, exit, prVars, cVars, yVars>>

(***************************************************************************)
(* Bounds of the model                                                     *)
(***************************************************************************)
MaxPage == 11      \* highest page number the model lets the loop request
MaxPRs == 2        \* highest total_count a PR search answers with
MaxCommits == 3    \* longest enumerated commit list given to the aggregator
MaxDays == 66      \* longest day series given to the chart painter

(***************************************************************************)
(* Program constants                                                       *)
(***************************************************************************)
perPage == 100
maxItems == 1000
MsPerDay == 86400000
squareSize == 2
daysAcross == 16
daysDown == 4
displayWidth == 32
iconWidth == 8
barRow == 7
progressBarWidth == displayWidth - iconWidth

NoError == "none"
Windows == {1, 7}
Now == 10 * MsPerDay

(***************************************************************************)
(* Sequence helpers                                                        *)
(***************************************************************************)
RECURSIVE SumRange(_, _, _)
SumRange(s, lo, hi) ==
    IF lo > hi THEN 0
    ELSE IF lo = hi THEN s[lo]
    ELSE SumRange(s, lo, (lo + hi) \div 2) + SumRange(s, (lo + hi) \div 2 + 1, hi)

SumSeq(s) == SumRange(s, 1, Len(s))

Max2(a, b) == IF a >= b THEN a ELSE b
Min2(a, b) == IF a <= b THEN a ELSE b

\* Math.max(...s, floor)
MaxSeq(s, floor) ==
    LET vals == {s[i] : i \in 1..Len(s)} \cup {floor}
    IN  CHOOSE m \in vals : \A v \in vals : m >= v

(***************************************************************************)
(* The search API: the commits matching the query, newest first, one every *)
(* CommitSpacing ms, served in pages of at most perPage items.             *)
(***************************************************************************)
CommitSpacing == (9 * MsPerDay) \div 1000
UpstreamDate(i) == Now - i * CommitSpacing
UpstreamPage(total, p) ==
    LET first == (p - 1) * perPage + 1
        last == Min2(p * perPage, total)
    IN  IF last < first THEN <<>>
        ELSE [j \in 1..(last - first + 1) |-> UpstreamDate(first + j - 1)]
Upstreams == {0, 1, 37, 99, 100, 137, 200, 237, 900, 999, 1000, 1050}

(***************************************************************************)
(* fetchCommitActivity: pagination                                         *)
(***************************************************************************)
\* a mutant: a short page does not end the loop
WhileCondNoShortStop(its, pg) == Len(its) < maxItems

\* a mutant: the cap is tested with <= instead of <
WhileCondCapOff(its, pg) ==
    Len(its) <= maxItems /\ (pg = 1 \/ Len(its) % perPage = 0)

WhileCond(its, pg) ==
    Len(its) < maxItems /\ (pg = 1 \/ Len(its) % perPage = 0)

(***************************************************************************)
(* fetchCommitActivity: grouping by day                                    *)
(***************************************************************************)
DaysDiff(t, date) == (t - date) \div MsPerDay

\* a mutant: the series is not reversed (today first)
BucketNotReversed(acc, dd, n) ==
    IF dd >= 0 /\ dd < n THEN [acc EXCEPT ![dd + 1] = @ + 1] ELSE acc

\* a mutant: a commit older than the window is counted in the oldest day
BucketClamp(acc, dd, n) ==
    IF dd >= 0 /\ dd < n THEN [acc EXCEPT ![n - dd] = @ + 1]
    ELSE IF dd >= n THEN [acc EXCEPT ![1] = @ + 1] ELSE acc

\* the body of the for-of loop for one commit, dd days old
Bucket(acc, dd, n) ==
    IF dd >= 0 /\ dd < n THEN [acc EXCEPT ![n - dd] = @ + 1] ELSE acc

\* the for-of loop over its[lo..hi], left to right, started with buckets acc.
\* The range is halved and the left half is evaluated before the right half is
\* entered (l is bound to its value), which keeps TLC's evaluation shallow.
RECURSIVE GroupByDay(_, _, _, _, _, _)
GroupByDay(its, lo, hi, acc, t, n) ==
    IF lo > hi THEN acc
    ELSE IF lo = hi THEN Bucket(acc, DaysDiff(t, its[lo]), n)
    ELSE LET mid == (lo + hi) \div 2
         IN  CHOOSE r \in {GroupByDay(its, mid + 1, hi, l, t, n) :
                              l \in {GroupByDay(its, lo, mid, acc, t, n)}} : TRUE

\* new Array(commitChartDays).fill(0)
ZeroDays(n) == [i \in 1..n |-> 0]

\* a mutant: the loop stops at the first commit outside the window
CommitsByDayBreak(its, t, n) ==
    LET out == {i \in 1..Len(its) : DaysDiff(t, its[i]) < 0 \/ DaysDiff(t, its[i]) >= n}
        stop == IF out = {} THEN Len(its) + 1 ELSE CHOOSE i \in out : \A j \in out : i <= j
    IN  GroupByDay(its, 1, stop - 1, ZeroDays(n), t, n)

CommitsByDay(its, t, n) == GroupByDay(its, 1, Len(its), ZeroDays(n), t, n)

AggregateResult(its, t, n) == [days |-> CommitsByDay(its, t, n), total |-> Len(its)]

NoData == [days |-> <<>>, total |-> -1]
NoPayload == [sent |-> FALSE]


(***************************************************************************)
(* pushCommitChartToUlanzi: colours.  A lightness is the exact fraction    *)
(* lNum / lDen (in percent); a colour is the string "#rrggbb" as the       *)
(* sequence of its characters.                                             *)
(***************************************************************************)
HexDigits == <<"0", "1", "2", "3", "4", "5", "6", "7", "8", "9",
               "a", "b", "c", "d", "e", "f">>
Hex2(v) == <<HexDigits[(v \div 16) + 1], HexDigits[(v % 16) + 1]>>

\* f(n) of hslToHex: Math.round(255 * color).toString(16).padStart(2, '0')
HslChannel(n, h, s, lNum, lDen) ==
    LET k == (n + h \div 30) % 12
        t == Max2(Min2(Min2(k - 3, 9 - k), 1), -1)
        m == Min2(lNum, 100 * lDen - lNum)
        num == 100 * lNum - s * m * t
        den == 10000 * lDen
    IN  Hex2((2 * 255 * num + den) \div (2 * den))

hslToHex(h, s, lNum, lDen) ==
    <<"#">> \o HslChannel(0, h, s, lNum, lDen) \o HslChannel(8, h, s, lNum, lDen)
            \o HslChannel(4, h, s, lNum, lDen)

getColorForCommits(commits, maxCommits) ==
    IF commits = 0 THEN hslToHex(120, 50, 8, 1)
    ELSE LET mx == Max2(maxCommits, 1)
             c == Min2(commits, mx)
         IN  hslToHex(120, 100, 15 * mx + 65 * c, mx)

(***************************************************************************)
(* pushCommitChartToUlanzi: the grid of 2x2 squares                        *)
(***************************************************************************)
\* a mutant: the loop lacks the bound i < daysAcross * daysDown
ChartCellsNoCap(n) == n

\* number of iterations of the drawing loop
ChartCells(n) == Min2(n, daysAcross * daysDown)

CellOrigin(i) ==
    LET col == i \div daysDown
        row == i % daysDown
    IN  <<col * squareSize, row * squareSize>>

drawCommands(days) ==
    LET maxCommits == MaxSeq(days, 1)
    IN  [k \in 1..ChartCells(Len(days)) |->
            [df |-> <<CellOrigin(k - 1)[1], CellOrigin(k - 1)[2], squareSize,
                      squareSize, getColorForCommits(days[k], maxCommits)>>]]

(***************************************************************************)
(* pushToUlanzi of index.ts: the text of the pull-request payload.  A      *)
(* plain string is a single fragment without colour.                       *)
(***************************************************************************)
PrText(prCount) ==
    IF prCount = 0 THEN <<[t |-> "No PRs", n |-> 0, c |-> "default"]>>
    ELSE <<[t |-> " ", n |-> prCount, c |-> "#8783D7"],
           [t |-> IF prCount > 1 THEN "PRs" ELSE "PR", n |-> 0, c |-> "#FFFFFF"]>>

PrPayloadOf(prCount) == [sent |-> TRUE, text |-> PrText(prCount), icon |-> "55529"]

(***************************************************************************)
(* Initial state: both programs of index.ts and the year-progress program  *)
(* are about to run their first poll.                                      *)
(***************************************************************************)
Init ==
    /\ commitChartDays \in Windows
    /\ exit = "running"
    /\ prPc = "poll" /\ prTotal = 0 /\ prPayload = NoPayload
    /\ prErr = NoError /\ prLog = NoError
    /\ cPc = "poll" /\ today = Now /\ upstream = 0
    /\ items = <<>> /\ page = 1 /\ requests = <<>> /\ pageLog = <<>>
    /\ commitData = NoData /\ chartPayload = NoPayload
    /\ cErr = NoError /\ cLog = NoError
    /\ yPc = "poll" /\ yTotal = 0 /\ yNow = [elapsed |-> 0, span |-> 1]
    /\ yPayload = NoPayload /\ yErr = NoError /\ yLog = NoError

(***************************************************************************)
(* commitProgram                                                           *)
(***************************************************************************)
\* pollCommitsOnce begins: fetchCommitActivity reads the clock and builds the query
PollCommitsOnceStart ==
    /\ exit = "running" /\ cPc = "poll"
    /\ \E u \in Upstreams : upstream' = u
    /\ today' = Now
    /\ items' = <<>> /\ page' = 1 /\ requests' = <<>> /\ pageLog' = <<>>
    /\ commitData' = NoData /\ chartPayload' = NoPayload
    /\ cErr' = NoError /\ cLog' = NoError
    /\ cPc' = "fetching"
    /\ UNCHANGED <<commitChartDays, exit, prVars, yVars>>

\* one iteration of Effect.iterate whose fetchPage succeeds
FetchPageOk ==
    /\ exit = "running" /\ cPc = "fetching"
    /\ WhileCond(items, page) /\ page <= MaxPage
    /\ LET newItems == UpstreamPage(upstream, page)
       IN  /\ items' = items \o newItems
           /\ pageLog' = Append(pageLog, Len(newItems))
    /\ requests' = Append(requests, page)
    /\ page' = page + 1
    /\ UNCHANGED <<commitChartDays, exit, prVars, yVars, cPc, today, upstream,
                   commitData, chartPayload, cErr, cLog>>

\* a mutant: the failed page is requested again
FetchPageFailRetry ==
    /\ exit = "running" /\ cPc = "fetching"
    /\ WhileCond(items, page) /\ page <= MaxPage
    /\ requests' = Append(requests, page)
    /\ cErr' = "fetch"
    /\ UNCHANGED <<commitChartDays, exit, prVars, yVars, cPc, today, upstream, items,
                   page, pageLog, commitData, chartPayload, cLog>>

\* one iteration of Effect.iterate whose fetchPage fails (transport or decode)
FetchPageFail ==
    /\ exit = "running" /\ cPc = "fetching"
    /\ WhileCond(items, page) /\ page <= MaxPage
    /\ requests' = Append(requests, page)
    /\ cErr' = "fetch"
    /\ cPc' = "caught"
    /\ UNCHANGED <<commitChartDays, exit, prVars, yVars, today, upstream, items, page,
                   pageLog, commitData, chartPayload, cLog>>

\* the loop has ended: group the commits by day and return
GroupCommits ==
    /\ exit = "running" /\ cPc = "fetching"
    /\ ~WhileCond(items, page)
    /\ commitData' = AggregateResult(items, today, commitChartDays)
    /\ cPc' = "push"
    /\ UNCHANGED <<commitChartDays, exit, prVars, yVars, today, upstream, items, page,
                   requests, pageLog, chartPayload, cErr, cLog>>

\* pushCommitChartToUlanzi: the POST is answered (a status other than 200 is logged)
PushCommitChartOk ==
    /\ exit = "running" /\ cPc = "push"
    /\ \E status \in {200, 500} :
          chartPayload' = [sent |-> TRUE, draw |-> drawCommands(commitData.days),
                           status |-> status]
    /\ cPc' = "sleep"
    /\ UNCHANGED <<commitChartDays, exit, prVars, yVars, today, upstream, items, page,
                   requests, pageLog, commitData, cErr, cLog>>

\* pushCommitChartToUlanzi: the POST fails
PushCommitChartFail ==
    /\ exit = "running" /\ cPc = "push"
    /\ cErr' = "push"
    /\ cPc' = "caught"
    /\ UNCHANGED <<commitChartDays, exit, prVars, yVars, today, upstream, items, page,
                   requests, pageLog, commitData, chartPayload, cLog>>

\* a mutant: without catchAll the failure reaches Effect.all, which fails and
\* interrupts the other program
CommitUncaught ==
    /\ exit = "running" /\ cPc = "caught"
    /\ exit' = "failed"
    /\ cPc' = "dead"
    /\ prPc' = "interrupted"
    /\ UNCHANGED <<commitChartDays, yVars, prTotal, prPayload, prErr, prLog, today,
                   upstream, items, page, requests, pageLog, commitData, chartPayload,
                   cErr, cLog>>

\* Effect.catchAll of commitProgram: Console.error, and the cycle ends
CommitCatchAll ==
    /\ exit = "running" /\ cPc = "caught"
    /\ cLog' = cErr
    /\ cErr' = NoError
    /\ cPc' = "sleep"
    /\ UNCHANGED <<commitChartDays, exit, prVars, yVars, today, upstream, items, page,
                   requests, pageLog, commitData, chartPayload>>

\* Effect.repeat(Schedule.spaced("1 day")): the next tick
CommitRepeat ==
    /\ exit = "running" /\ cPc = "sleep"
    /\ cPc' = "poll"
    /\ UNCHANGED <<commitChartDays, exit, prVars, yVars, today, upstream, items, page,
                   requests, pageLog, commitData, chartPayload, cErr, cLog>>

commitProgram ==
    \/ PollCommitsOnceStart \/ FetchPageOk \/ FetchPageFail \/ GroupCommits
    \/ PushCommitChartOk \/ PushCommitChartFail \/ CommitCatchAll \/ CommitRepeat


(***************************************************************************)
(* prProgram                                                               *)
(***************************************************************************)
\* pollOnce begins: fetchOpenPRs answers with total_count
FetchOpenPRsOk ==
    /\ exit = "running" /\ prPc = "poll"
    /\ \E n \in 0..MaxPRs : prTotal' = n
    /\ prPayload' = NoPayload /\ prErr' = NoError /\ prLog' = NoError
    /\ prPc' = "push"
    /\ UNCHANGED <<commitChartDays, exit, cVars, yVars>>

\* pollOnce begins: fetchOpenPRs fails (transport or decode)
FetchOpenPRsFail ==
    /\ exit = "running" /\ prPc = "poll"
    /\ prPayload' = NoPayload /\ prLog' = NoError
    /\ prErr' = "fetch"
    /\ prPc' = "caught"
    /\ UNCHANGED <<commitChartDays, exit, cVars, yVars, prTotal>>

\* pushToUlanzi(total): the POST is answered
PushToUlanziOk ==
    /\ exit = "running" /\ prPc = "push"
    /\ prPayload' = PrPayloadOf(prTotal)
    /\ prPc' = "sleep"
    /\ UNCHANGED <<commitChartDays, exit, cVars, yVars, prTotal, prErr, prLog>>

\* pushToUlanzi(total): the POST fails
PushToUlanziFail ==
    /\ exit = "running" /\ prPc = "push"
    /\ prErr' = "push"
    /\ prPc' = "caught"
    /\ UNCHANGED <<commitChartDays, exit, cVars, yVars, prTotal, prPayload, prLog>>

\* Effect.catchAll of prProgram: Console.error, and the cycle ends
PrCatchAll ==
    /\ exit = "running" /\ prPc = "caught"
    /\ prLog' = prErr
    /\ prErr' = NoError
    /\ prPc' = "sleep"
    /\ UNCHANGED <<commitChartDays, exit, cVars, yVars, prTotal, prPayload>>

\* Effect.repeat(Schedule.spaced(pollIntervalMinutes)): the next tick
PrRepeat ==
    /\ exit = "running" /\ prPc = "sleep"
    /\ prPc' = "poll"
    /\ UNCHANGED <<commitChartDays, exit, cVars, yVars, prTotal, prPayload, prErr, prLog>>

prProgram ==
    \/ FetchOpenPRsOk \/ FetchOpenPRsFail \/ PushToUlanziOk \/ PushToUlanziFail
    \/ PrCatchAll \/ PrRepeat

(***************************************************************************)
(* program of index.ts: Effect.all([prProgram, commitProgram]), unbounded  *)
(* concurrency; the two fibers interleave at their network calls.          *)
(***************************************************************************)
Next == prProgram \/ commitProgram

Spec == Init /\ [][Next]_vars

(***************************************************************************)
(* The year-progress program (part_000).  The clock is in seconds: the     *)
(* seconds elapsed since yearStart and the length yearEnd - yearStart.     *)
(***************************************************************************)
SecPerDay == MsPerDay \div 1000
Spans == {365 * SecPerDay, 366 * SecPerDay}
ClockSamples(s) ==
    {e \in {(k * s) \div progressBarWidth + d : k \in 0..progressBarWidth, d \in {-1, 0}} :
        e >= 0 /\ e < s}
Clocks == UNION {{[elapsed |-> e, span |-> s] : e \in ClockSamples(s)} : s \in Spans}

\* Math.floor(yearProgress * progressBarWidth)
progressPixels(clock) == (clock.elapsed * progressBarWidth) \div clock.span

\* a mutant: the background line is drawn under the whole bar
BackgroundLineFull(px) ==
    IF px < progressBarWidth
    THEN <<[dl |-> <<iconWidth, barRow, displayWidth - 1, barRow, "#333333">>]>>
    ELSE <<>>

BackgroundLine(px) ==
    IF px < progressBarWidth
    THEN <<[dl |-> <<iconWidth + px, barRow, displayWidth - 1, barRow, "#333333">>]>>
    ELSE <<>>

ProgressLine(px) ==
    IF px > 0
    THEN <<[dl |-> <<iconWidth, barRow, iconWidth + px - 1, barRow, "#40C463">>]>>
    ELSE <<>>

draw(px) == BackgroundLine(px) \o ProgressLine(px)

YearPayloadOf(prCount, clock) ==
    [sent |-> TRUE, text |-> <<[t |-> " ", n |-> prCount, c |-> "#8783D7"]>>,
     draw |-> draw(progressPixels(clock)), icon |-> "55529"]

FetchMergedPRsOk ==
    /\ yPc = "poll"
    /\ \E n \in 0..MaxPRs : yTotal' = n
    /\ yPayload' = NoPayload /\ yErr' = NoError /\ yLog' = NoError
    /\ yPc' = "push"
    /\ UNCHANGED <<commitChartDays, exit, prVars, cVars, yNow>>

FetchMergedPRsFail ==
    /\ yPc = "poll"
    /\ yPayload' = NoPayload /\ yLog' = NoError
    /\ yErr' = "fetch"
    /\ yPc' = "caught"
    /\ UNCHANGED <<commitChartDays, exit, prVars, cVars, yTotal, yNow>>

\* pushToUlanzi(total): reads the clock, draws the bar; the POST is answered
PushYearProgressOk ==
    /\ yPc = "push"
    /\ \E clock \in Clocks :
          /\ yNow' = clock
          /\ yPayload' = YearPayloadOf(yTotal, clock)
    /\ yPc' = "sleep"
    /\ UNCHANGED <<commitChartDays, exit, prVars, cVars, yTotal, yErr, yLog>>

\* pushToUlanzi(total): reads the clock, draws the bar; the POST fails
PushYearProgressFail ==
    /\ yPc = "push"
    /\ \E clock \in Clocks : yNow' = clock
    /\ yErr' = "push"
    /\ yPc' = "caught"
    /\ UNCHANGED <<commitChartDays, exit, prVars, cVars, yTotal, yPayload, yLog>>

YearCatchAll ==
    /\ yPc = "caught"
    /\ yLog' = yErr
    /\ yErr' = NoError
    /\ yPc' = "sleep"
    /\ UNCHANGED <<commitChartDays, exit, prVars, cVars, yTotal, yNow, yPayload>>

YearRepeat ==
    /\ yPc = "sleep"
    /\ yPc' = "poll"
    /\ UNCHANGED <<commitChartDays, exit, prVars, cVars, yTotal, yNow, yPayload, yErr,
                   yLog>>

NextBar ==
    \/ FetchMergedPRsOk \/ FetchMergedPRsFail \/ PushYearProgressOk
    \/ PushYearProgressFail \/ YearCatchAll \/ YearRepeat

SpecBar == Init /\ [][NextBar]_vars


(***************************************************************************)
(* The aggregator on its own: fetchCommitActivity when its loop has just   *)
(* ended after one short page holding any list of commits.                 *)
(***************************************************************************)
SampleDates ==
    {Now + 1, Now, Now - MsPerDay, Now - (3 * MsPerDay + MsPerDay \div 2),
     Now - (7 * MsPerDay - 1), Now - 7 * MsPerDay, Now - 9 * MsPerDay}

\* commits 0, 0, 1, 3, 6 and 9 days old
ExampleCommits ==
    <<Now, Now, Now - MsPerDay, Now - (3 * MsPerDay + MsPerDay \div 2),
      Now - (7 * MsPerDay - 1), Now - 9 * MsPerDay>>

CommitLists == UNION {[1..k -> SampleDates] : k \in 1..MaxCommits} \cup {ExampleCommits}

InitAgg ==
    /\ commitChartDays \in Windows
    /\ exit = "running"
    /\ prPc = "poll" /\ prTotal = 0 /\ prPayload = NoPayload
    /\ prErr = NoError /\ prLog = NoError
    /\ cPc = "fetching" /\ today = Now
    /\ items \in CommitLists
    /\ upstream = Len(items) /\ page = 2 /\ requests = <<1>> /\ pageLog = <<Len(items)>>
    /\ commitData = NoData /\ chartPayload = NoPayload
    /\ cErr = NoError /\ cLog = NoError
    /\ yPc = "poll" /\ yTotal = 0 /\ yNow = [elapsed |-> 0, span |-> 1]
    /\ yPayload = NoPayload /\ yErr = NoError /\ yLog = NoError

NextAgg == GroupCommits

SpecAgg == InitAgg /\ [][NextAgg]_vars

(***************************************************************************)
(* The chart painter on its own: pushCommitChartToUlanzi given any day     *)
(* series of commitChartDays days.                                         *)
(***************************************************************************)
SeriesOf(n, pat) ==
    [i \in 1..n |-> IF pat = "empty" THEN 0 ELSE IF pat = "flat" THEN 3 ELSE i % 5]

InitGrid ==
    /\ commitChartDays \in 0..MaxDays
    /\ exit = "running"
    /\ prPc = "poll" /\ prTotal = 0 /\ prPayload = NoPayload
    /\ prErr = NoError /\ prLog = NoError
    /\ cPc = "push" /\ today = Now /\ upstream = 0
    /\ items = <<>> /\ page = 1 /\ requests = <<>> /\ pageLog = <<>>
    /\ \E pat \in {"empty", "flat", "mixed"} :
          commitData = [days |-> SeriesOf(commitChartDays, pat),
                        total |-> commitChartDays]
    /\ chartPayload = NoPayload
    /\ cErr = NoError /\ cLog = NoError
    /\ yPc = "poll" /\ yTotal = 0 /\ yNow = [elapsed |-> 0, span |-> 1]
    /\ yPayload = NoPayload /\ yErr = NoError /\ yLog = NoError

NextGrid == PushCommitChartOk \/ PushCommitChartFail

SpecGrid == InitGrid /\ [][NextGrid]_vars


(***************************************************************************)
(* Properties                                                              *)
(***************************************************************************)
RECURSIVE ConcatPages(_, _)
ConcatPages(total, k) ==
    IF k = 0 THEN <<>> ELSE ConcatPages(total, k - 1) \o UpstreamPage(total, k)

FullThenShort(log) ==
    /\ Len(log) >= 1
    /\ \A i \in 1..(Len(log) - 1) : log[i] = 100
    /\ log[Len(log)] >= 1 /\ log[Len(log)] <= 99

\* C1: when pages 1..k-1 hold 100 items each and page k holds 1..99 items, the
\* loop has issued exactly the k requests for pages 1..k, requests no further
\* page, and holds (and returns) the concatenation of the k pages in page
\* order; sizes 100, 100, 37 give 237 items after 3 requests.
C1_ShortPageEndsPagination ==
    FullThenShort(pageLog) =>
        LET k == Len(pageLog)
        IN  /\ requests = [i \in 1..k |-> i]
            /\ page = k + 1
            /\ ~WhileCond(items, page)
            /\ items = ConcatPages(upstream, k)
            /\ Len(items) = 100 * (k - 1) + pageLog[k]
            /\ (commitData # NoData => commitData.total = Len(items))
            /\ (pageLog = <<100, 100, 37>> => Len(items) = 237 /\ Len(requests) = 3)

C1_Witness ==
    /\ pageLog = <<100, 100, 37>>
    /\ Len(items) = 237
    /\ requests = <<1, 2, 3>>
    /\ cPc = "sleep"
    /\ chartPayload.sent

\* C2: the loop stops as soon as the page fetched last was empty; when the
\* upstream holds a multiple of 100 commits below 1000 (0 included) there is
\* exactly one extra, empty fetch and no request after it.
C2_EmptyPageStops ==
    /\ (pageLog # <<>> /\ pageLog[Len(pageLog)] = 0) => ~WhileCond(items, page)
    /\ (upstream % 100 = 0 /\ upstream < 1000) => Len(requests) <= upstream \div 100 + 1

FullPages(log) == Cardinality({i \in 1..Len(log) : log[i] = 100})

\* C3: the accumulated item count never exceeds 1000, at most 10 full pages
\* are fetched in a cycle, and no page is requested once 1000 or more items
\* are accumulated.
C3_HardCap ==
    /\ [](Len(items) <= 1000 /\ FullPages(pageLog) <= 10)
    /\ [][Len(items) >= 1000 => Len(requests') <= Len(requests)]_vars

C3_Witness ==
    /\ Len(items) = 1000
    /\ Len(requests) = 10
    /\ upstream > 1000
    /\ cPc = "push"

\* C4: when the fetch of page k fails, pages 1..k have been requested once
\* each and in order, nothing is requested after page k, the accumulated
\* items are not aggregated and no chart payload is pushed in that cycle.
C4_FetchFailureAborts ==
    (cErr = "fetch" \/ cLog = "fetch") =>
        LET k == Len(requests)
        IN  /\ k >= 1
            /\ requests = [i \in 1..k |-> i]
            /\ Len(pageLog) = k - 1
            /\ cPc \in {"caught", "sleep", "poll"}
            /\ commitData = NoData
            /\ chartPayload = NoPayload

C4_Witness ==
    /\ cLog = "fetch"
    /\ cPc = "sleep"
    /\ requests = <<1, 2, 3>>
    /\ Len(items) = 200

Live == {"poll", "fetching", "push", "caught", "sleep"}

\* C5: neither program ever ends or interrupts the other; a step of one
\* program leaves the other program's state alone; a failed cycle is logged,
\* then the program waits for its tick and polls again, and each of these
\* steps can be taken whatever the other program is doing.
C5_IndependentPrograms ==
    /\ [](/\ exit = "running" /\ prPc \in Live /\ cPc \in Live
          /\ (prPc = "caught" => prErr # NoError /\ ENABLED PrCatchAll)
          /\ (prPc = "sleep" => ENABLED PrRepeat)
          /\ (prPc = "poll" => ENABLED FetchOpenPRsOk)
          /\ (cPc = "caught" => cErr # NoError /\ ENABLED CommitCatchAll)
          /\ (cPc = "sleep" => ENABLED CommitRepeat)
          /\ (cPc = "poll" => ENABLED PollCommitsOnceStart))
    /\ [][/\ (prVars' # prVars => cVars' = cVars)
          /\ (cVars' # cVars => prVars' = prVars)
          /\ (prPc = "caught" /\ prPc' # prPc => prPc' = "sleep" /\ prLog' = prErr)
          /\ (cPc = "caught" /\ cPc' # cPc => cPc' = "sleep" /\ cLog' = cErr)
          /\ (prPc = "sleep" /\ prPc' # prPc => prPc' = "poll")
          /\ (cPc = "sleep" /\ cPc' # cPc => cPc' = "poll")]_vars

C5_Witness ==
    /\ prLog = "fetch"
    /\ prPc = "poll"
    /\ cPc = "sleep"
    /\ chartPayload.sent
    /\ Len(items) = 237

InWindow(date) ==
    DaysDiff(today, date) >= 0 /\ DaysDiff(today, date) < commitChartDays

CountPerDay ==
    [b \in 1..commitChartDays |->
        Cardinality({j \in 1..Len(items) :
                        DaysDiff(today, items[j]) = commitChartDays - b})]

AggregationRule ==
    /\ Len(commitData.days) = commitChartDays
    /\ commitData.days = CountPerDay
    /\ commitData.total = Len(items)

\* C6 as stated: every commit 0 <= daysDiff < N days old counts in bucket
\* N-1-daysDiff alone, the others in none, the series has length N and the
\* total counts all commits; window 7 with commits 0, 0, 1, 3, 6, 9 days old
\* gives the series 0,0,0,1,0,1,2 and total 6.
C6_AsStated ==
    commitData # NoData =>
        /\ AggregationRule
        /\ (items = ExampleCommits /\ commitChartDays = 7 =>
               commitData = [days |-> <<0, 0, 0, 1, 0, 1, 2>>, total |-> 6])

\* C6 amended: the same rule; window 7 with commits 0, 0, 1, 3, 6, 9 days old
\* gives the series 1,0,0,1,0,1,2 (the commit 6 days old is in bucket 0) and
\* total 6.
C6_Aggregation ==
    commitData # NoData =>
        /\ AggregationRule
        /\ (items = ExampleCommits /\ commitChartDays = 7 =>
               commitData = [days |-> <<1, 0, 0, 1, 0, 1, 2>>, total |-> 6])

C6_Witness ==
    /\ items = ExampleCommits
    /\ commitChartDays = 7
    /\ commitData.total = 6
    /\ Len(commitData.days) = 7

InWindowCount == Cardinality({j \in 1..Len(items) : InWindow(items[j])})

\* C7: the sum of the series is at most the total, equals the total exactly
\* when every commit is inside the window, and always equals the number of
\* commits inside the window.
C7_SumVsTotal ==
    commitData # NoData =>
        /\ SumSeq(commitData.days) <= commitData.total
        /\ (SumSeq(commitData.days) = commitData.total <=> InWindowCount = Len(items))
        /\ SumSeq(commitData.days) = InWindowCount

C7_Witness ==
    /\ commitData # NoData
    /\ commitChartDays = 7
    /\ commitData.total = 3
    /\ SumSeq(commitData.days) = 1

BarLines == IF yPayload.sent THEN yPayload.draw ELSE <<>>
Span(line) == line.dl[1]..line.dl[3]

\* C8: with filled = floor(progress * 24): filled = 0 gives the background
\* line alone, 0 < filled < 24 gives two lines, progress on x = 8..8+filled-1
\* and background on x = 8+filled..31, adjacent, disjoint and covering x =
\* 8..31 on row 7; filled = 24 gives the progress line alone.
C8_ProgressBar ==
    /\ yPayload.sent =>
          LET filled == (yNow.elapsed * 24) \div yNow.span
              progress == {i \in 1..Len(BarLines) : BarLines[i].dl[5] = "#40C463"}
              background == {i \in 1..Len(BarLines) : BarLines[i].dl[5] = "#333333"}
          IN  /\ filled >= 0 /\ filled <= 24
              /\ Cardinality(progress) = (IF filled > 0 THEN 1 ELSE 0)
              /\ Cardinality(background) = (IF filled < 24 THEN 1 ELSE 0)
              /\ Len(BarLines) = Cardinality(progress) + Cardinality(background)
              /\ \A i \in 1..Len(BarLines) :
                    BarLines[i].dl[2] = 7 /\ BarLines[i].dl[4] = 7
              /\ \A i \in progress : Span(BarLines[i]) = 8..(8 + filled - 1)
              /\ \A i \in background : Span(BarLines[i]) = (8 + filled)..31
              /\ \A i \in progress, j \in background :
                    /\ Span(BarLines[i]) \cap Span(BarLines[j]) = {}
                    /\ BarLines[i].dl[3] + 1 = BarLines[j].dl[1]
                    /\ Span(BarLines[i]) \cup Span(BarLines[j]) = 8..31
    /\ draw(0) = <<[dl |-> <<8, 7, 31, 7, "#333333">>]>>
    /\ draw(24) = <<[dl |-> <<8, 7, 31, 7, "#40C463">>]>>

C8_Witness ==
    /\ yPayload.sent
    /\ (yNow.elapsed * 24) \div yNow.span = 12
    /\ Len(yPayload.draw) = 2

ChartRects == IF chartPayload.sent THEN chartPayload.draw ELSE <<>>

\* C9: for a series of N days exactly min(N, 64) squares are drawn, square k
\* (from 0) for day k at origin (2*floor(k/4), 2*(k mod 4)) with size 2x2; the
\* origins are pairwise distinct, no two squares overlap, every square lies
\* inside the 32x8 canvas, and days 64 and above draw nothing.
C9_GridLayout ==
    chartPayload.sent =>
        LET n == Len(commitData.days)
            m == IF n < 64 THEN n ELSE 64
            X(k) == ChartRects[k].df[1]
            Y(k) == ChartRects[k].df[2]
        IN  /\ Len(ChartRects) = m
            /\ \A k \in 1..m :
                  /\ X(k) = 2 * ((k - 1) \div 4) /\ Y(k) = 2 * ((k - 1) % 4)
                  /\ ChartRects[k].df[3] = 2 /\ ChartRects[k].df[4] = 2
                  /\ X(k) >= 0 /\ Y(k) >= 0 /\ X(k) + 2 <= 32 /\ Y(k) + 2 <= 8
            /\ \A j \in 1..Len(ChartRects), k \in 1..Len(ChartRects) :
                  j < k =>
                    /\ <<X(j), Y(j)>> # <<X(k), Y(k)>>
                    /\ \/ X(j) + 2 <= X(k) \/ X(k) + 2 <= X(j)
                       \/ Y(j) + 2 <= Y(k) \/ Y(k) + 2 <= Y(j)

C9_Witness ==
    /\ chartPayload.sent
    /\ Len(commitData.days) = 66
    /\ Len(chartPayload.draw) = 64

Permuted(its, f) == [i \in 1..Len(its) |-> its[f[i]]]

\* C10: every permutation of the fetched commits aggregates to the same
\* series and total as the list itself.
C10_OrderInvariant ==
    commitData # NoData =>
        \A f \in Permutations(1..Len(items)) :
            AggregateResult(Permuted(items, f), today, commitChartDays) = commitData

C10_Witness ==
    /\ commitData # NoData
    /\ Len(items) = 3
    /\ ~InWindow(items[1]) /\ InWindow(items[2]) /\ InWindow(items[3])
    /\ items[2] # items[3]
    /\ SumSeq(commitData.days) = 2

====
